---- MODULE Spec2Model ----
(***************************************************************************)
(* Model of tauri-specta's Builder (src/src/builder.rs): the builder's     *)
(* five fields, its fluent registration methods, invoke_handler and        *)
(* export_ts, together with the destination file export_ts writes.         *)
(*                                                                         *)
(* Conventions: an Option<T> is a sequence of length at most one (<<>> is  *)
(* None, <<x>> is Some(x)); a wire name is a sequence of name parts        *)
(* (<<"greet">> is the bare name, <<"myplugin", "greet">> the qualified    *)
(* one).                                                                   *)
(***************************************************************************)
EXTENDS Integers, Sequences, FiniteSets, TLC

\* ---------------------------------------------------------------- bounds
NumTypeIds == 2
MaxCalls == 4

\* ------------------------------------------------------------ value sets
TypeIds == 1..NumTypeIds
Defs == {"struct_i32", "struct_i64"}
NoDef == "absent"
\* A Rust type implementing NamedType: its sid() and its definition.
NamedTypes == [sid : TypeIds, def : Defs]
CmdNames == {"greet", "add"}
EvNames == {"tick"}
Prefixes == {"myplugin"}
ConstNames == {"VERSION"}
ConstInputs == {"1.0", "2.0", "unserializable"}
Header == "// generated"
\* Typescript configuration: the output path and how 64-bit integers export.
Languages == [path : {<<>>, <<"bindings.ts">>}, bigint : {"Fail", "Export"}, header : {Header}]
\* The first step of an export the environment makes fail.
EnvOutcomes == {"ok", "mkdir", "create", "render", "write_none", "write_partial", "format"}

NoConst == [present |-> FALSE]
NoText == [kind |-> "none"]
NoHandler == [valid |-> FALSE, accepts |-> {}]

VARIABLES plugin_name, commands, events, types, constants,
          handler, file, written, prevWritten, dirty, registered,
          result, fail, lastOp, lastCommands, lastEvents, lastArg,
          alive, calls

vars == <<plugin_name, commands, events, types, constants,
          handler, file, written, prevWritten, dirty, registered,
          result, fail, lastOp, lastCommands, lastEvents, lastArg,
          alive, calls>>

\* Book-keeping of calls other than the one being made.
history == <<lastCommands, lastEvents>>

\* ------------------------------------------------- collaborators (spec)
\* The named type a command's signature refers to.
command_type(c) == IF c = "greet" THEN [sid |-> 1, def |-> "struct_i32"]
                   ELSE [sid |-> 2, def |-> "struct_i64"]

\* T::reference(&mut types, &[]): registers T under its sid when the sid is
\* not in the table yet, and leaves a present entry alone.
reference(tm, T) == IF tm[T.sid] = NoDef THEN [tm EXCEPT ![T.sid] = T.def] ELSE tm

RECURSIVE collect(_, _)
\* commands.1: registers the types of every descriptor into the type table.
collect(cmds, tm) ==
    IF cmds = {} THEN tm
    ELSE LET c == CHOOSE x \in cmds : TRUE
         IN collect(cmds \ {c}, reference(tm, command_type(c)))

\* commands.0: name-based lookup over the registered set; the wire names the
\* dispatch closure accepts.
dispatch_names(cmds) == {<<c>> : c \in cmds}

\* The wire name the rendered client uses for a command.
qualified(plugin, c) == plugin \o <<c>>

\* serde_json::to_value
to_value(v) == IF v = "unserializable" THEN [ok |-> FALSE, json |-> ""]
               ELSE [ok |-> TRUE, json |-> v]

\* specta_typescript::export_named_datatype on one table entry.
export_named_datatype(language, sid, def) ==
    IF def = "struct_i64" /\ language.bigint = "Fail"
    THEN [ok |-> FALSE, decl |-> <<sid, "error">>]
    ELSE [ok |-> TRUE,
          decl |-> <<sid, IF def = "struct_i64" THEN "bigint" ELSE "number">>]

Present(tm) == {s \in TypeIds : tm[s] # NoDef}

\* The entries of a constant map as name/value pairs.
entries(cs) == {<<k, cs[k].v>> : k \in {n \in ConstNames : cs[n].present}}

\* crate::js_ts::render_all_parts
render_all_parts(cmds, evs, statics, plugin, dependant_types) ==
    [types |-> dependant_types,
     commands |-> {qualified(plugin, c) : c \in cmds},
     events |-> {qualified(plugin, e) : e \in evs},
     constants |-> entries(statics)]

RECURSIVE decl_seq(_, _, _)
\* The declarations of the entries 1..n of the table, in key order (the
\* table is a BTreeMap, so iteration is by ascending sid).
decl_seq(language, tm, n) ==
    IF n = 0 THEN <<>>
    ELSE LET rest == decl_seq(language, tm, n - 1)
         IN IF tm[n] = NoDef THEN rest
            ELSE Append(rest, export_named_datatype(language, n, tm[n]).decl)

\* ------------------------------------------------------------ the builder
NoArg == [none |-> TRUE]

Init ==
    /\ plugin_name = <<>>
    /\ commands = {}
    /\ events = {}
    /\ types = [s \in TypeIds |-> NoDef]
    /\ constants = [k \in ConstNames |-> NoConst]
    /\ handler = NoHandler
    /\ file \in {[state |-> "absent", text |-> NoText], [state |-> "old", text |-> NoText]}
    /\ written = NoText
    /\ prevWritten = NoText
    /\ dirty = FALSE
    /\ registered = {}
    /\ result = "none"
    /\ fail = "none"
    /\ lastOp = "new"
    /\ lastCommands = [set |-> FALSE, cmds |-> {}]
    /\ lastEvents = [set |-> FALSE, evs |-> {}]
    /\ lastArg = NoArg
    /\ alive = TRUE
    /\ calls = 0

\* A call of a builder method: the builder exists (no earlier call has
\* panicked and dropped it).
Call(op, arg) ==
    /\ alive
    /\ calls < MaxCalls
    /\ calls' = calls + 1
    /\ lastOp' = op
    /\ lastArg' = arg

Returned == result' = "returned" /\ fail' = "none" /\ alive' = TRUE

Builder_plugin_name ==
    \E p \in Prefixes :
        /\ Call("plugin_name", NoArg)
        /\ plugin_name' = <<p>>
        /\ dirty' = TRUE
        /\ Returned
        /\ UNCHANGED <<commands, events, types, constants, handler, file,
                       written, prevWritten, registered, history>>

Builder_commands_merge ==
    \E cmds \in SUBSET CmdNames :
        /\ Call("commands", NoArg)
        /\ commands' = commands \cup cmds
        /\ lastCommands' = [set |-> TRUE, cmds |-> cmds]
        /\ dirty' = TRUE
        /\ Returned
        /\ UNCHANGED <<plugin_name, events, types, constants, handler, file,
                       written, prevWritten, registered, lastEvents>>

Builder_commands ==
    \E cmds \in SUBSET CmdNames :
        /\ Call("commands", NoArg)
        /\ commands' = cmds
        /\ lastCommands' = [set |-> TRUE, cmds |-> cmds]
        /\ dirty' = TRUE
        /\ Returned
        /\ UNCHANGED <<plugin_name, events, types, constants, handler, file,
                       written, prevWritten, registered, lastEvents>>

Builder_events ==
    \E evs \in SUBSET EvNames :
        /\ Call("events", NoArg)
        /\ events' = evs
        /\ lastEvents' = [set |-> TRUE, evs |-> evs]
        /\ dirty' = TRUE
        /\ Returned
        /\ UNCHANGED <<plugin_name, commands, types, constants, handler, file,
                       written, prevWritten, registered, lastCommands>>

\* let dt = T::definition_named_data_type(&mut self.types);
\* self.types.insert(T::sid(), dt): the entry under T's sid is replaced
\* whatever it held. The types modelled have no nested named types.
Builder_ty ==
    \E T \in NamedTypes :
        /\ Call("ty", [T |-> T])
        /\ types' = [types EXCEPT ![T.sid] = T.def]
        /\ registered' = registered \cup {T.sid}
        /\ dirty' = TRUE
        /\ Returned
        /\ UNCHANGED <<plugin_name, commands, events, constants, handler, file,
                       written, prevWritten, history>>

\* The types a constant's value may have: unnamed (a primitive, <<>>) or named.
ConstTypes == {<<>>} \cup {<<T>> : T \in NamedTypes}

constant_swallow(k, v, T) ==
    LET json == to_value(v)
    IN IF ~json.ok
       THEN /\ Returned
            /\ UNCHANGED <<types, constants, registered, dirty>>
       ELSE /\ types' = IF T = <<>> THEN types ELSE reference(types, T[1])
            /\ constants' = [constants EXCEPT ![k] =
                              [present |-> TRUE,
                               ty |-> IF T = <<>> THEN <<>> ELSE <<T[1].sid>>,
                               v |-> json.json]]
            /\ registered' = registered \cup {T[i].sid : i \in DOMAIN T}
            /\ dirty' = TRUE
            /\ Returned

\* to_value(v).expect(..) panics before anything is inserted; the builder,
\* moved into the call, is dropped by the unwinding.
constant(k, v, T) ==
    LET json == to_value(v)
    IN IF ~json.ok
       THEN /\ result' = "panic"
            /\ fail' = "none"
            /\ alive' = FALSE
            /\ UNCHANGED <<types, constants, registered, dirty>>
       ELSE /\ types' = IF T = <<>> THEN types ELSE reference(types, T[1])
            /\ constants' = [constants EXCEPT ![k] =
                              [present |-> TRUE,
                               ty |-> IF T = <<>> THEN <<>> ELSE <<T[1].sid>>,
                               v |-> json.json]]
            /\ registered' = registered \cup {T[i].sid : i \in DOMAIN T}
            /\ dirty' = TRUE
            /\ Returned

Builder_constant ==
    \E k \in ConstNames, v \in ConstInputs, T \in ConstTypes :
        /\ Call("constant", [k |-> k, v |-> v])
        /\ constant(k, v, T)
        /\ UNCHANGED <<plugin_name, commands, events, handler, file,
                       written, prevWritten, history>>

invoke_handler_prefixed(cmds, plugin) ==
    [valid |-> TRUE, accepts |-> {qualified(plugin, c) : c \in cmds}]

\* let commands = self.commands.0.clone(); move |invoke| commands(invoke):
\* the returned closure is the registered dispatch function; self.plugin_name
\* is not read.
invoke_handler(cmds, plugin) == [valid |-> TRUE, accepts |-> dispatch_names(cmds)]

Builder_invoke_handler ==
    /\ Call("invoke_handler", NoArg)
    /\ handler' = invoke_handler(commands, plugin_name)
    /\ Returned
    /\ UNCHANGED <<plugin_name, commands, events, types, constants, file,
                   written, prevWritten, dirty, registered, history>>

\* ----------------------------------------------------------------- export
File(state, text) == [state |-> state, text |-> text]

dependant_types_stale(language, before, after) ==
    [ok |-> \A s \in Present(before) : export_named_datatype(language, s, before[s]).ok,
     decls |-> decl_seq(language, before, NumTypeIds)]

\* The declarations of every entry of self.types, joined in iteration order,
\* or the first export error. self.types is read after the command types
\* have been collected into it (after), not as it was on entry (before).
dependant_types(language, before, after) ==
    [ok |-> \A s \in Present(after) : export_named_datatype(language, s, after[s]).ok,
     decls |-> decl_seq(language, after, NumTypeIds)]

run_format_propagated(text, env) ==
    IF env = "format"
    THEN [file |-> File("written", text), result |-> "Err", fail |-> "format"]
    ELSE [file |-> File("formatted", text), result |-> "Ok", fail |-> "none"]

\* language.run_format(path).ok(); Ok(()): the formatter rewrites the file
\* when it succeeds, and its failure is dropped.
run_format(text, env) ==
    IF env = "format"
    THEN [file |-> File("written", text), result |-> "Ok", fail |-> "format"]
    ELSE [file |-> File("formatted", text), result |-> "Ok", fail |-> "none"]

Outcome(tm, f, w, res, fl) ==
    [types |-> tm, file |-> f, written |-> w, result |-> res, fail |-> fl]

\* The body of export_ts, step by step; env names the first step that the
\* environment (file system, renderer, formatter) makes fail.
export_run(language, env) ==
    IF language.path = <<>> THEN Outcome(types, file, NoText, "Ok", "none")
    ELSE IF env = "mkdir" THEN Outcome(types, file, NoText, "Err", "mkdir")
    ELSE IF env = "create" THEN Outcome(types, file, NoText, "Err", "create")
    ELSE
      LET created == File("empty", NoText)
          collected == collect(commands, types)
          dts == dependant_types(language, types, collected)
          text == [header |-> language.header,
                   body |-> render_all_parts(commands, events,
                                             [k \in ConstNames |-> NoConst],
                                             plugin_name, dts.decls)]
          fmt == run_format(text, env)
      IN IF ~dts.ok THEN Outcome(collected, created, NoText, "Err", "type")
         ELSE IF env = "render" THEN Outcome(collected, created, NoText, "Err", "render")
         ELSE IF env = "write_none" THEN Outcome(collected, created, NoText, "Err", "write")
         ELSE IF env = "write_partial"
              THEN Outcome(collected, File("partial", text), NoText, "Err", "write")
         ELSE Outcome(collected, fmt.file,
                      [kind |-> "text", lang |-> language, text |-> text],
                      fmt.result, fmt.fail)

export_frame_take ==
    /\ commands' = {}
    /\ UNCHANGED <<plugin_name, events, constants, handler, registered, history>>

\* What export_ts leaves alone: it assigns self.types and nothing else of
\* the builder.
export_frame ==
    UNCHANGED <<plugin_name, commands, events, constants, handler, registered, history>>

export_ts(language, env) ==
    LET out == export_run(language, env)
    IN /\ types' = out.types
       /\ file' = out.file
       /\ result' = out.result
       /\ fail' = out.fail
       /\ alive' = TRUE
       /\ IF out.written = NoText
          THEN UNCHANGED <<written, prevWritten, dirty>>
          ELSE /\ written' = out.written
               /\ prevWritten' = IF written # NoText /\ ~dirty /\ written.lang = language
                                 THEN written ELSE NoText
               /\ dirty' = FALSE
       /\ export_frame

Builder_export_ts ==
    \E language \in Languages, env \in EnvOutcomes :
        /\ Call("export_ts", [language |-> language])
        /\ export_ts(language, env)

Next ==
    \/ Builder_plugin_name
    \/ Builder_commands
    \/ Builder_events
    \/ Builder_ty
    \/ Builder_constant
    \/ Builder_invoke_handler
    \/ Builder_export_ts

Spec == Init /\ [][Next]_vars

\* ------------------------------------------------------------- properties
\* The last call was an export that wrote its output to the file.
Wrote == lastOp = "export_ts" /\ result = "Ok" /\ lastArg.language.path # <<>>

Range(q) == {q[i] : i \in DOMAIN q}

\* C1: last-wins overwrite. The builder holds exactly the command set and the
\* event set of the most recent commands/events call (the empty default
\* before any), whatever calls are interleaved; a handler returned by
\* invoke_handler and an export made afterwards carry that set and no
\* command of an earlier one.
C1_LastWins ==
    /\ commands = lastCommands.cmds
    /\ events = lastEvents.evs
    /\ (lastOp = "invoke_handler" => handler.accepts = dispatch_names(lastCommands.cmds))
    /\ (Wrote => /\ written.text.body.commands =
                      {qualified(plugin_name, c) : c \in lastCommands.cmds}
                 /\ written.text.body.events =
                      {qualified(plugin_name, e) : e \in lastEvents.evs})

\* commands(A), invoke_handler, commands(B), export: "greet" was only in A.
C1_Witness ==
    /\ Wrote
    /\ <<"greet">> \in handler.accepts
    /\ lastCommands.set
    /\ commands = {"add"}

\* C2: every registered constant appears in the export's output: the
\* constants rendered by an export that wrote equal the builder's constant map.
C2_ConstantsRendered ==
    Wrote => written.text.body.constants = entries(constants)

\* C3: an export that returns Err leaves the destination file as it was
\* before the call (nothing created, truncated or partly written).
C3_NoPartialWrite ==
    [][(lastOp' = "export_ts" /\ result' = "Err") => file' = file]_vars

\* C4: two exports with the same language configuration and no registration
\* call in between write identical text, although the first one collects the
\* command types into the type table.
C4_Deterministic ==
    prevWritten # NoText => written.text = prevWritten.text

\* Two such exports were made, and the table holds types that only the
\* first export's collection put there.
C4_Witness ==
    /\ prevWritten # NoText
    /\ lastOp = "export_ts"
    /\ registered = {}
    /\ Present(types) # {}

\* C5 (as claimed): with a prefix P set, the returned dispatcher accepts a
\* command N only as "P:N" and rejects the bare N.
C5_PrefixedDispatch ==
    (lastOp = "invoke_handler" /\ plugin_name # <<>>) =>
        \A c \in commands : /\ qualified(plugin_name, c) \in handler.accepts
                            /\ <<c>> \notin handler.accepts

\* C5 (amended): the prefix is handed to the renderer only. The rendered
\* client name of N is "P:N", while the dispatcher returned by invoke_handler
\* is the registered dispatch function whatever the prefix: it accepts the
\* bare N and, with a prefix set, not "P:N".
C5_PrefixOnlyRendered ==
    /\ (lastOp = "invoke_handler" =>
          /\ handler.accepts = dispatch_names(commands)
          /\ plugin_name # <<>> =>
               \A c \in commands : qualified(plugin_name, c) \notin handler.accepts)
    /\ ((Wrote /\ plugin_name # <<>>) =>
          \A c \in commands : /\ qualified(plugin_name, c) \in written.text.body.commands
                              /\ <<c>> \notin written.text.body.commands)

C5_Witness ==
    /\ lastOp = "invoke_handler"
    /\ plugin_name = <<"myplugin">>
    /\ "greet" \in commands
    /\ written # NoText
    /\ <<"myplugin", "greet">> \in written.text.body.commands

\* C6 (as claimed): registering a constant whose value cannot be serialized
\* returns a failure and leaves the builder usable.
C6_FailureReturned ==
    (lastOp = "constant" /\ ~to_value(lastArg.v).ok) => (result = "Err" /\ alive)

\* C6 (amended): registering a constant whose value cannot be serialized
\* panics before the constant map or the type table is touched, and the
\* builder, consumed by the call, takes no later call.
C6_PanicsBeforeInsert ==
    [][/\ alive
       /\ (lastOp' = "constant" /\ ~to_value(lastArg'.v).ok) =>
            /\ result' = "panic"
            /\ ~alive'
            /\ UNCHANGED <<constants, types>>]_vars

C6_Witness ==
    /\ lastOp = "constant"
    /\ result = "panic"
    /\ ~alive
    /\ constants["VERSION"].present
    /\ Present(types) # {}

\* C7: a definition stored under a TypeId is never replaced by a different
\* one, and a ty call whose type collides with a different stored definition
\* is signalled as an error.
C7_FirstRegistrationKept ==
    [][/\ \A s \in TypeIds : types[s] # NoDef => types'[s] = types[s]
       /\ (lastOp' = "ty" /\ types[lastArg'.T.sid] \notin {NoDef, lastArg'.T.def}) =>
            result' \in {"Err", "panic"}]_vars

\* C8: export_ts changes nothing of the builder but the type table, and the
\* handler invoke_handler returns is the dispatch function of the current
\* command set whether or not an export has run, succeeded or failed.
C8_ExportDecoupled ==
    [][/\ lastOp' = "export_ts" =>
            UNCHANGED <<commands, events, constants, plugin_name, handler>>
       /\ lastOp' = "invoke_handler" =>
            /\ handler'.accepts = dispatch_names(commands)
            /\ UNCHANGED <<types, file, written>>]_vars

\* A handler taken after an export that failed past the file's creation.
C8_Witness ==
    /\ lastOp = "invoke_handler"
    /\ file.state = "empty"
    /\ handler.accepts # {}

\* C9: a formatter failure after a successful write still yields Ok with the
\* written text in place; every other failing step of an export yields Err,
\* and Err comes from nothing else.
C9_FormatterSwallowed ==
    lastOp = "export_ts" =>
        /\ fail = "format" => (result = "Ok" /\ file = File("written", written.text))
        /\ fail \in {"mkdir", "create", "type", "render", "write"} => result = "Err"
        /\ result = "Err" => fail \in {"mkdir", "create", "type", "render", "write"}

C9_Witness ==
    /\ lastOp = "export_ts"
    /\ fail = "format"
    /\ result = "Ok"
    /\ file.state = "written"

\* C10: the type declarations of an export are those of the types reachable
\* from the current command set together with the types registered through
\* ty and constant, and no others.
C10_TypesFromCurrent ==
    Wrote => {d[1] : d \in Range(written.text.body.types)} =
               {command_type(c).sid : c \in commands} \cup registered

====
